---- MODULE Spec2Model ----
(***************************************************************************)
(* Management plane of a router worker (crossbar/worker/router.py):        *)
(* the registries of realms, roles, uplinks, components and transports,    *)
(* the start/stop operations of RouterWorkerSession with their asynchronous *)
(* continuations, the web resource tree builder and the shutdown handler.  *)
(*                                                                         *)
(* External collaborators (checkconfig, RouterFactory, RouterSessionFactory,*)
(* the component loader, the listening-port primitive) are not part of the *)
(* file. What they answer is an input of the call: a configuration carries *)
(* the verdict of its schema check and of the loading of the code it names,*)
(* and a fault raised by a collaborator is an input of the action, counted *)
(* against MaxFaults.                                                      *)
(***************************************************************************)
EXTENDS Integers, Sequences, FiniteSets, TLC

\* ------------------------------------------------------------------ bounds
\* management calls that change the worker's state in one run (a call that
\* fails and changes nothing is always possible)
MaxCalls == 4
\* the same where calls on all kinds of entities are mixed
MaxMixedCalls == 2
\* faults raised by external collaborators in one run
MaxFaults == 1

\* ------------------------------------------------------------------ identifiers
RealmIds == {"r1", "r2"}
Uris == {"u1", "u2"}
RoleIds == {"ro1"}
UplinkIds == {"up1"}
ComponentIds == {"c1", "c2"}
TransportIds == {"t1"}

\* ------------------------------------------------------------------ path keys
\* A key of a paths dictionary: a text or a byte string, as its code points.
TextKey(cs) == [text |-> TRUE, chars |-> cs]
BytesKey(cs) == [text |-> FALSE, chars |-> cs]
\* the native string literal '/' of lines 793 and 1166 (a text string)
RootText == TextKey(<<47>>)
\* the literal b"/" of line 869
RootBytes == BytesKey(<<47>>)
KeyA == TextKey(<<97>>)
KeyB == TextKey(<<98>>)
KeyC == TextKey(<<99>>)

\* the UTF-8 encoding of one code point
Utf8(c) ==
    IF c < 128 THEN <<c>>
    ELSE IF c < 2048 THEN <<192 + (c \div 64), 128 + (c % 64)>>
    ELSE IF c < 65536
    THEN <<224 + (c \div 4096), 128 + ((c \div 64) % 64), 128 + (c % 64)>>
    ELSE <<240 + (c \div 262144), 128 + ((c \div 4096) % 64),
           128 + ((c \div 64) % 64), 128 + (c % 64)>>

RECURSIVE Utf8Encode(_)
\* cs.encode('utf8') for the code points cs of a text string without surrogates
Utf8Encode(cs) == IF cs = <<>> THEN <<>> ELSE Utf8(Head(cs)) \o Utf8Encode(Tail(cs))

\* path.encode('utf8') raises UnicodeEncodeError: a text key with a surrogate,
\* a code point from U+D800 to U+DFFF
CannotEncode(path) ==
    path.text /\ \E i \in DOMAIN path.chars : 55296 <= path.chars[i] /\ path.chars[i] <= 57343

\* path.encode('utf8') for a text key, the key itself otherwise (lines 864-867)
WebPath(path) == IF path.text THEN BytesKey(Utf8Encode(path.chars)) ELSE path

RECURSIVE AsciiIgnore(_)
\* url.encode('ascii', 'ignore'): the code points below 128, the others dropped
AsciiIgnore(cs) ==
    IF cs = <<>> THEN <<>>
    ELSE IF Head(cs) < 128 THEN <<Head(cs)>> \o AsciiIgnore(Tail(cs))
    ELSE AsciiIgnore(Tail(cs))

RECURSIVE LexLess(_, _)
\* a < b for two strings of one type: code point by code point, a proper
\* prefix first (the order sorted() uses on the keys)
LexLess(a, b) ==
    IF a = <<>> THEN b # <<>>
    ELSE IF b = <<>> THEN FALSE
    ELSE IF Head(a) # Head(b) THEN Head(a) < Head(b)
    ELSE LexLess(Tail(a), Tail(b))

RECURSIVE Ascending(_)
\* the keys of a set of comparable keys in ascending order
Ascending(S) ==
    IF S = {} THEN <<>>
    ELSE LET m == CHOOSE x \in S : \A y \in S \ {x} : LexLess(x.chars, y.chars)
         IN <<m>> \o Ascending(S \ {m})

\* sorted(paths): the keys in ascending order when they are all text or all
\* byte strings; a text key and a byte string key cannot be compared, and
\* sorted raises TypeError
SortedKeys(S) ==
    IF \A x, y \in S : x.text = y.text THEN [err |-> "ok", keys |-> Ascending(S)]
    ELSE [err |-> "TypeError", keys |-> <<>>]

\* ------------------------------------------------------------------ results
\* the outcome of a call as its caller sees it
Ok == "ok"
\* the call has returned a Deferred that has not fired yet
Pending == "pending"
AlreadyRunning == "crossbar.error.already_running"
AlreadyExists == "crossbar.error.already_exists"
NoSuchObject == "crossbar.error.no_such_object"
InvalidConfiguration == "crossbar.error.invalid_configuration"
CannotListen == "crossbar.error.cannot_listen"
CannotStop == "crossbar.error.cannot_stop"
NotRunning == "crossbar.error.not_running"
ClassImportFailed == "crossbar.error.class_import_failed"
\* exceptions that are no ApplicationError
NotImplemented == "NotImplementedError"
PlainException == "Exception"
KeyErr == "KeyError"
AttributeErr == "AttributeError"
ValueErr == "ValueError"
UnicodeErr == "UnicodeEncodeError"
NameErr == "NameError"
ImportErr == "ImportError"
\* a fault raised by an external collaborator, passed on as it is
ExternalFault == "external fault"

\* ------------------------------------------------------------------ state
VARIABLES
    \* self.realms: realm ID -> RouterRealm
    realms,
    \* self.realm_to_id: realm URI -> realm ID
    realm_to_id,
    \* self.components: component ID -> RouterComponent
    components,
    \* self.transports: transport ID -> RouterTransport
    transports,
    \* the transport IDs in the order the dict self.transports iterates them:
    \* the order in which the keys were inserted
    transport_order,
    \* the routing core (self._router_factory): the URIs a router was started for
    routers,
    \* the routing core's role table: URI -> the role configurations added
    core_roles,
    \* self._router_session_factory: the sessions added to it
    app_sessions,
    \* the component sessions for which is_connected() is true
    connected,
    \* the I/O substrate: the listening ports that are bound
    bound,
    \* thread pools started by wsgi paths
    pools,
    \* calls suspended on a Deferred, each with what its continuation closes over
    pending,
    \* the last call or continuation that ran, and its outcome for the caller
    last,
    \* management calls so far that changed the state
    calls,
    \* collaborator faults raised so far
    faults,
    \* objects (sessions, ports) created so far: the next one is fresh + 1
    fresh,
    \* datetime.utcnow() of the last object constructed
    clock,
    \* the worker session: "running" until onLeave is called, "leaving" while
    \* the DeferredList of leaves is open, "left" once the parent's onLeave ran
    phase,
    \* the sessions component.session.leave was called on
    leave_requested,
    \* the components whose leave Deferred has not fired yet
    leave_pending,
    \* session -> how often a `done` callback called disconnect() on it
    disconnected,
    \* onLeave's local variable `component` once its loop has ended
    loop_component,
    \* how often the parent's onLeave was invoked
    parent_left

vars == <<realms, realm_to_id, components, transports, transport_order, routers,
          core_roles, app_sessions, connected, bound, pools, pending, last, calls, faults,
          fresh, clock, phase, leave_requested, leave_pending, disconnected,
          loop_component, parent_left>>

\* the state of the shutdown handler
shutdown == <<phase, leave_requested, leave_pending, disconnected, loop_component,
              parent_left>>

\* an empty dictionary
EmptyMap == <<>>

\* d[k] = v on a dictionary
Put(d, k, v) == [x \in DOMAIN d \cup {k} |-> IF x = k THEN v ELSE d[x]]

\* del d[k] on a dictionary that has k
Del(d, k) == [x \in DOMAIN d \ {k} |-> d[x]]

\* the order in which a dict iterates its keys after a step that leaves it
\* with the given keys: a key it had keeps its place (also when its value is
\* replaced), a deleted key is gone, a new key comes last
DictOrder(order, keys) ==
    LET Kept(k) == k \in keys
        new == keys \ {order[i] : i \in DOMAIN order}
    IN SelectSeq(order, Kept) \o (IF new = {} THEN <<>> ELSE <<CHOOSE k \in new : TRUE>>)

\* session=None
NoSession == 0

\* ------------------------------------------------------------------ resource tree
\* Resource404(self._templates, ...)
Resource404 == [kind |-> "404", children |-> EmptyMap]

\* resource.putChild(webPath, child)
PutChild(resource, webPath, child) ==
    [resource EXCEPT !.children = Put(resource.children, webPath, child)]

\* what the builder has done besides building: sessions added to the
\* router session factory and thread pools started
NoEffects == [added |-> 0, started |-> 0]

\* the builder returning a resource
Built(res, eff) == [err |-> Ok, res |-> res, eff |-> eff]

\* the builder raising: the effects so far stay
Raised(err, eff) == [err |-> err, res |-> [kind |-> "none"], eff |-> eff]

\* path_config.get('paths', {}) of a 'path' entry
NestedPaths(pc) == IF "paths" \in DOMAIN pc THEN pc.paths ELSE EmptyMap

\* the else branch of _create_resource: "invalid Web path type"
InvalidPathType(eff) == Raised(InvalidConfiguration, eff)

RECURSIVE CreateResource(_, _, _)
RECURSIVE AddPathsFrom(_, _, _, _)

\* RouterWorkerSession._add_paths(resource, paths): the loop over sorted(paths),
\* from position 1 of the sorted keys; it ends at the first entry that raises
AddPaths(resource, paths, eff) ==
    LET sorted == SortedKeys(DOMAIN paths) IN
    IF sorted.err # Ok THEN Raised(sorted.err, eff)
    ELSE AddPathsFrom(resource, paths, sorted.keys, eff)

AddPathsFrom(resource, paths, keys, eff) ==
    IF keys = <<>> THEN Built(resource, eff)
    ELSE LET path == Head(keys) IN
         IF CannotEncode(path) THEN Raised(UnicodeErr, eff)
         ELSE IF path # RootBytes
         THEN LET child == CreateResource(paths[path], TRUE, eff) IN
              IF child.err # Ok THEN child
              ELSE AddPathsFrom(PutChild(resource, WebPath(path), child.res),
                                paths, Tail(keys), child.eff)
         ELSE AddPathsFrom(resource, paths, Tail(keys), eff)

\* RouterWorkerSession._create_resource(path_config, nested)
CreateResource(pc, nested, eff) ==
    CASE pc.type = "websocket" ->
           Built([kind |-> "websocket", children |-> EmptyMap], eff)
      [] pc.type = "static" ->
           IF pc.source = "directory"
           THEN Built([kind |-> "static", listing |-> pc.listing, children |-> EmptyMap], eff)
           ELSE IF pc.source = "package"
           \* import_error: what importlib.import_module raises, Ok when nothing;
           \* `except ImportError` (line 909) lets every other exception through.
           \* located: pkg_resources.resource_filename finds the resource
           THEN IF ~pc.has_resource THEN Raised(InvalidConfiguration, eff)
                ELSE IF pc.import_error = ImportErr THEN Raised(InvalidConfiguration, eff)
                ELSE IF pc.import_error # Ok THEN Raised(pc.import_error, eff)
                ELSE IF ~pc.located THEN Raised(InvalidConfiguration, eff)
                ELSE Built([kind |-> "static", listing |-> pc.listing, children |-> EmptyMap], eff)
           ELSE Raised(InvalidConfiguration, eff)
      \* has_wsgi: _HAS_WSGI, whether twisted.web.wsgi could be imported when the
      \* module was loaded (lines 69-74). import_error: what
      \* importlib.import_module raises, Ok when nothing; `except ImportError`
      \* (line 968) lets every other exception through. in_module: the module
      \* has the app object
      [] pc.type = "wsgi" ->
           IF ~pc.has_wsgi THEN Raised(InvalidConfiguration, eff)
           ELSE IF ~pc.has_module THEN Raised(InvalidConfiguration, eff)
           ELSE IF ~pc.has_object THEN Raised(InvalidConfiguration, eff)
           ELSE IF pc.import_error = ImportErr THEN Raised(InvalidConfiguration, eff)
           ELSE IF pc.import_error # Ok THEN Raised(pc.import_error, eff)
           ELSE IF ~pc.in_module THEN Raised(InvalidConfiguration, eff)
           ELSE LET eff2 == [eff EXCEPT !.started = @ + 1] IN
                IF ~pc.instantiable THEN Raised(InvalidConfiguration, eff2)
                ELSE Built([kind |-> "wsgi", root_wrapped |-> ~nested, children |-> EmptyMap], eff2)
      [] pc.type = "redirect" ->
           Built([kind |-> "redirect", url |-> AsciiIgnore(pc.url), children |-> EmptyMap], eff)
      [] pc.type = "json" ->
           Built([kind |-> "json", value |-> pc.value, children |-> EmptyMap], eff)
      \* has_cgi: _HAS_CGI; without it the name CgiDirectory was never imported
      \* (lines 103-109) and line 1016 raises NameError
      [] pc.type = "cgi" ->
           IF ~pc.has_cgi THEN Raised(NameErr, eff)
           ELSE Built([kind |-> "cgi", children |-> EmptyMap], eff)
      [] pc.type = "longpoll" ->
           Built([kind |-> "longpoll", children |-> EmptyMap], eff)
      [] pc.type \in {"publisher", "webhook", "caller"} ->
           LET eff2 == [eff EXCEPT !.added = @ + 1] IN
           Built([kind |-> pc.type, session |-> fresh + eff2.added, children |-> EmptyMap], eff2)
      [] pc.type = "upload" ->
           IF ~pc.upload_dir THEN Raised(InvalidConfiguration, eff)
           ELSE IF ~pc.temp_dir THEN Raised(InvalidConfiguration, eff)
           ELSE LET eff2 == [eff EXCEPT !.added = @ + 1] IN
                Built([kind |-> "upload", session |-> fresh + eff2.added, children |-> EmptyMap], eff2)
      [] pc.type = "resource" ->
           IF ~pc.importable THEN Raised(ClassImportFailed, eff)
           ELSE Built([kind |-> "custom", children |-> EmptyMap], eff)
      [] pc.type = "schemadoc" ->
           IF pc.realm \notin DOMAIN realm_to_id THEN Raised(NoSuchObject, eff)
           ELSE IF realms[realm_to_id[pc.realm]].session = NoSession
           THEN Raised(AttributeErr, eff)
           ELSE Built([kind |-> "schemadoc", realm |-> pc.realm,
                       schemas |-> realms[realm_to_id[pc.realm]].session,
                       children |-> EmptyMap], eff)
      [] pc.type = "path" ->
           LET nested_paths == NestedPaths(pc) IN
           IF RootText \in DOMAIN nested_paths
           THEN LET root == CreateResource(nested_paths[RootText], TRUE, eff) IN
                IF root.err # Ok THEN root
                ELSE AddPaths(root.res, nested_paths, root.eff)
           ELSE AddPaths(Resource404, nested_paths, eff)
      [] OTHER -> InvalidPathType(eff)

\* ------------------------------------------------------------------ configurations
\* A configuration carries, beside its content, the verdict `check` of the
\* checkconfig validator on it.

\* realm configurations: config['name'] is the realm URI
RealmConfig(name, check) == [name |-> name, check |-> check]
RealmConfigs == {RealmConfig("u1", TRUE), RealmConfig("u2", TRUE), RealmConfig("u1", FALSE)}

\* role configurations
RoleConfigs == {[name |-> "ra"], [name |-> "rb"]}

\* uplink configurations
UplinkConfigs == {[url |-> "x"]}

\* self._connections: the connection pool references resolve against
Connections == {"db1"}

\* component configurations: `references` holds each reference as the parts
\* ref.split(':') yields; `load` tells what loading the component's code does
CompConfig(realm, check, references, load) ==
    [realm |-> realm, check |-> check, references |-> references, load |-> load]
ComponentConfigs ==
    { CompConfig("u1", TRUE, <<>>, "ok"),
      CompConfig("u2", TRUE, << <<"connection", "db1">> >>, "ok"),
      CompConfig("u1", FALSE, <<>>, "ok"),
      CompConfig("u1", TRUE, << <<"connection", "db1">>, <<"connection", "db9">> >>, "ok"),
      CompConfig("u1", TRUE, << <<"realm", "r1">> >>, "ok"),
      CompConfig("u1", TRUE, << <<"connection", "db1", "x">> >>, "ok"),
      CompConfig("u1", TRUE, <<>>, "loader_raises"),
      CompConfig("u1", TRUE, <<>>, "create_raises") }

\* path entries
Json(v) == [type |-> "json", value |-> v]
Bogus == [type |-> "bogus"]
SchemaDoc(uri) == [type |-> "schemadoc", realm |-> uri]
PathOf(paths) == [type |-> "path", paths |-> paths]

\* a paths dictionary with one, two entries
Paths1(k, v) == Put(EmptyMap, k, v)
Paths2(k1, v1, k2, v2) == Put(Paths1(k1, v1), k2, v2)

\* transport configurations
PlainTransport(type, check) == [type |-> type, check |-> check]
WebTransport(paths) == [type |-> "web", check |-> TRUE, paths |-> paths]
TransportConfigs ==
    { PlainTransport("rawsocket", TRUE),
      PlainTransport("rawsocket", FALSE),
      PlainTransport("bogus", TRUE),
      PlainTransport("web", TRUE),
      WebTransport(Paths1(RootText, Json(1))),
      WebTransport(Paths1(RootText, Bogus)),
      WebTransport(Paths2(KeyA, Json(2), KeyB, Bogus)),
      WebTransport(Paths2(KeyA, [type |-> "publisher", realm |-> "u1"], KeyB, Bogus)),
      WebTransport(Paths2(KeyA, SchemaDoc("u1"), KeyB, Bogus)),
      WebTransport(Paths2(RootText, Json(1), KeyA,
                          PathOf(Paths2(RootText, Json(2), KeyC, Bogus)))),
      \* a nested key of the one code point U+00E9
      WebTransport(Paths2(KeyA, PathOf(Paths1(TextKey(<<233>>), Json(3))),
                          KeyC, SchemaDoc("u2"))),
      WebTransport(Paths1(RootBytes, Bogus)),
      \* a text key beside the byte string key b'b'
      WebTransport(Paths2(KeyA, Json(2), BytesKey(<<98>>), Json(3))),
      \* a key of the lone surrogate U+D800
      WebTransport(Paths1(TextKey(<<55296>>), Json(2))) }

\* ------------------------------------------------------------------ events
\* no configuration argument
NoConfig == [none |-> TRUE]
\* no second identifier
NoSub == "-"

\* what `last` records: the procedure or continuation, its arguments, its
\* outcome, and for a call on a transport the number of the call it belongs to
Event(op, id, sub, config, res, call) ==
    [op |-> op, id |-> id, sub |-> sub, config |-> config, res |-> res, call |-> call]

\* the event loop is between two turns: no handler or callback is running
Idle == Event("idle", NoSub, NoSub, NoConfig, Ok, 0)

\* the outcomes that are a failure of the call
IsFailure(res) == res \notin {Ok, Pending}

\* ------------------------------------------------------------------ construction
\* RouterWorkerSession.onJoin: empty registries
Init ==
    /\ realms = EmptyMap
    /\ realm_to_id = EmptyMap
    /\ components = EmptyMap
    /\ transports = EmptyMap
    /\ transport_order = <<>>
    /\ routers = {}
    /\ core_roles = [u \in Uris |-> {}]
    /\ app_sessions = {}
    /\ connected = {}
    /\ bound = {}
    /\ pools = 0
    /\ pending = {}
    /\ last = Idle
    /\ calls = 0
    /\ faults = 0
    /\ fresh = 0
    /\ clock = 0
    /\ phase = "running"
    /\ leave_requested = {}
    /\ leave_pending = {}
    /\ disconnected = EmptyMap
    /\ loop_component = NoSub
    /\ parent_left = 0

\* datetime.utcnow() at a construction: not before the last reading
Nows == {clock, clock + 1}

\* a management call is delivered at the start of a turn of the event loop
\* (the worker session has not left); effect: the call changes the state
Call(effect) == /\ last = Idle
                /\ phase = "running"
                /\ effect => calls < MaxCalls
                /\ calls' = IF effect THEN calls + 1 ELSE calls

\* the number of the call a step belongs to
CallNo(effect) == IF effect THEN calls + 1 ELSE 0

\* a collaborator raises in this step only where the call reaches it
FaultCount(fault, reached) ==
    /\ fault # "none" => reached /\ faults < MaxFaults
    /\ faults' = IF fault # "none" THEN faults + 1 ELSE faults

\* ------------------------------------------------------------------ realms
\* RouterRealm(id, config)
RouterRealm(id, config, now) ==
    [id |-> id, config |-> config, session |-> NoSession, created |-> now,
     roles |-> EmptyMap, uplinks |-> EmptyMap]

\* a duplicate check that finds no realm
RealmNeverRunning(id) == FALSE

\* the duplicate check of start_router_realm
RealmIsRunning(id) == id \in DOMAIN realms

\* get_router_realms
GetRouterRealms ==
    /\ Call(FALSE)
    /\ last' = Event("get_router_realms", NoSub, NoSub, NoConfig, PlainException, 0)
    /\ UNCHANGED <<realms, realm_to_id, components, transports, transport_order, routers,
                   core_roles, app_sessions, connected, bound, pools, pending, faults,
                   fresh, clock, shutdown>>

\* start_router_realm(id, config) up to `yield extra['onready']`; fault names
\* the collaborator that raises: start_realm, the RouterServiceSession
\* constructor, or the session factory's add; now is what datetime.utcnow()
\* gives when RouterRealm is constructed
StartRouterRealm(id, config, fault, now) ==
    LET reached == ~RealmIsRunning(id) /\ config.check
        res == IF RealmIsRunning(id) THEN AlreadyRunning
               ELSE IF ~config.check THEN InvalidConfiguration
               ELSE IF fault # "none" THEN ExternalFault
               ELSE Pending
        constructed == reached /\ fault \notin {"start_realm", "session"}
        session == IF constructed THEN fresh + 1 ELSE NoSession
    IN
    /\ Call(reached)
    /\ FaultCount(fault, reached)
    /\ realms' = IF reached
                 THEN Put(realms, id, [RouterRealm(id, config, now) EXCEPT !.session = session])
                 ELSE realms
    /\ clock' = IF reached THEN now ELSE clock
    /\ realm_to_id' = IF reached THEN Put(realm_to_id, config.name, id) ELSE realm_to_id
    /\ routers' = IF reached /\ fault # "start_realm" THEN routers \cup {config.name} ELSE routers
    /\ fresh' = IF constructed THEN fresh + 1 ELSE fresh
    /\ app_sessions' = IF res = Pending THEN app_sessions \cup {session} ELSE app_sessions
    /\ pending' = IF res = Pending
                  THEN pending \cup {[kind |-> "realm", id |-> id]}
                  ELSE pending
    /\ last' = Event("start_router_realm", id, NoSub, config, res, CallNo(reached))
    /\ UNCHANGED <<components, transports, transport_order, core_roles, connected, bound,
                   pools, shutdown>>

\* the service session fires extra['onready']: start_router_realm resumes
\* after the yield and returns
RealmReady(p) ==
    /\ last = Idle
    /\ p \in pending /\ p.kind = "realm"
    /\ pending' = pending \ {p}
    /\ last' = Event("start_router_realm.ready", p.id, NoSub, NoConfig, Ok, 0)
    /\ UNCHANGED <<realms, realm_to_id, components, transports, transport_order, routers,
                   core_roles, app_sessions, connected, bound, pools, calls, faults, fresh,
                   clock, shutdown>>

\* extra['onready'] fails: the failure is raised at the yield
RealmReadyFailed(p) ==
    /\ last = Idle
    /\ p \in pending /\ p.kind = "realm"
    /\ FaultCount("onready", TRUE)
    /\ pending' = pending \ {p}
    /\ last' = Event("start_router_realm.ready", p.id, NoSub, NoConfig, ExternalFault, 0)
    /\ UNCHANGED <<realms, realm_to_id, components, transports, transport_order, routers,
                   core_roles, app_sessions, connected, bound, pools, calls, fresh, clock,
                   shutdown>>

\* a stop that takes the realm out of the registry and the index
StopRouterRealmRemoves(id) ==
    /\ Call(id \in DOMAIN realms)
    /\ realms' = Del(realms, id)
    /\ realm_to_id' = [u \in {v \in DOMAIN realm_to_id : realm_to_id[v] # id} |-> realm_to_id[u]]
    /\ last' = Event("stop_router_realm", id, NoSub, NoConfig, Ok, CallNo(id \in DOMAIN realms))
    /\ UNCHANGED <<components, transports, transport_order, routers, core_roles,
                   app_sessions, connected, bound, pools, pending, faults, fresh, clock,
                   shutdown>>

\* stop_router_realm(id)
StopRouterRealm(id) ==
    /\ Call(FALSE)
    /\ last' = Event("stop_router_realm", id, NoSub, NoConfig, NotImplemented, 0)
    /\ UNCHANGED <<realms, realm_to_id, components, transports, transport_order, routers,
                   core_roles, app_sessions, connected, bound, pools, pending, faults,
                   fresh, clock, shutdown>>

\* ------------------------------------------------------------------ roles
\* RouterRealmRole(id, config)
RouterRealmRole(id, config) == [id |-> id, config |-> config]

\* the check of a realm argument: the realm is in the registry
RealmExists(id) == id \in DOMAIN realms

\* a role check that finds every role
RoleAlwaysExists(id, role_id) == TRUE

\* a role check that looks into every realm
RoleExistsInSomeRealm(id, role_id) ==
    \E r \in DOMAIN realms : role_id \in DOMAIN realms[r].roles

\* the duplicate check of start_router_realm_role
RoleExists(id, role_id) == role_id \in DOMAIN realms[id].roles

\* get_router_realm_roles(id): the role IDs of realms[id].roles.values()
RealmRoles(id) == {realms[id].roles[r].id : r \in DOMAIN realms[id].roles}

\* get_router_realm_roles(id)
GetRouterRealmRoles(id) ==
    /\ Call(FALSE)
    /\ last' = Event("get_router_realm_roles", id, NoSub, NoConfig,
                     IF RealmExists(id) THEN Ok ELSE NoSuchObject, 0)
    /\ UNCHANGED <<realms, realm_to_id, components, transports, transport_order, routers,
                   core_roles, app_sessions, connected, bound, pools, pending, faults,
                   fresh, clock, shutdown>>

\* start_router_realm_role(id, role_id, config); fault: the routing core's
\* add_role raises
StartRouterRealmRole(id, role_id, config, fault) ==
    LET reached == RealmExists(id) /\ ~RoleExists(id, role_id)
        res == IF ~RealmExists(id) THEN NoSuchObject
               ELSE IF RoleExists(id, role_id) THEN AlreadyExists
               ELSE IF fault # "none" THEN ExternalFault
               ELSE Ok
        uri == realms[id].config.name
    IN
    /\ Call(reached)
    /\ FaultCount(fault, reached)
    /\ realms' = IF reached
                 THEN [realms EXCEPT ![id].roles = Put(@, role_id, RouterRealmRole(role_id, config))]
                 ELSE realms
    /\ core_roles' = IF res = Ok
                     THEN [core_roles EXCEPT ![uri] = @ \cup {config}]
                     ELSE core_roles
    /\ last' = Event("start_router_realm_role", id, role_id, config, res, CallNo(reached))
    /\ UNCHANGED <<realm_to_id, components, transports, transport_order, routers,
                   app_sessions, connected, bound, pools, pending, fresh, clock, shutdown>>

\* a stop of a role that also empties the realm's uplink map
StopRouterRealmRoleAndUplinks(id, role_id) ==
    LET found == RealmExists(id) /\ RoleExists(id, role_id) IN
    /\ Call(found)
    /\ realms' = IF found
                 THEN [realms EXCEPT ![id].roles = Del(@, role_id), ![id].uplinks = EmptyMap]
                 ELSE realms
    /\ last' = Event("stop_router_realm_role", id, role_id, NoConfig,
                     IF found THEN Ok ELSE NoSuchObject, CallNo(found))
    /\ UNCHANGED <<realm_to_id, components, transports, transport_order, routers,
                   core_roles, app_sessions, connected, bound, pools, pending, faults,
                   fresh, clock, shutdown>>

\* stop_router_realm_role(id, role_id)
StopRouterRealmRole(id, role_id) ==
    LET res == IF ~RealmExists(id) THEN NoSuchObject
               ELSE IF ~RoleExists(id, role_id) THEN NoSuchObject
               ELSE Ok
    IN
    /\ Call(res = Ok)
    /\ realms' = IF res = Ok THEN [realms EXCEPT ![id].roles = Del(@, role_id)] ELSE realms
    /\ last' = Event("stop_router_realm_role", id, role_id, NoConfig, res, CallNo(res = Ok))
    /\ UNCHANGED <<realm_to_id, components, transports, transport_order, routers,
                   core_roles, app_sessions, connected, bound, pools, pending, faults,
                   fresh, clock, shutdown>>

\* ------------------------------------------------------------------ uplinks
\* RouterRealmUplink(id, config)
RouterRealmUplink(id, config) == [id |-> id, config |-> config, session |-> NoSession]

\* a duplicate check that finds no uplink
UplinkNeverExists(realm_id, uplink_id) == FALSE

\* the duplicate check of start_router_realm_uplink
UplinkExists(realm_id, uplink_id) == uplink_id \in DOMAIN realms[realm_id].uplinks

\* get_router_realm_uplinks(id)
GetRouterRealmUplinks(id) ==
    /\ Call(FALSE)
    /\ last' = Event("get_router_realm_uplinks", id, NoSub, NoConfig,
                     IF RealmExists(id) THEN Ok ELSE NoSuchObject, 0)
    /\ UNCHANGED <<realms, realm_to_id, components, transports, transport_order, routers,
                   core_roles, app_sessions, connected, bound, pools, pending, faults,
                   fresh, clock, shutdown>>

\* start_router_realm_uplink(realm_id, uplink_id, uplink_config) up to
\* `yield extra['onready']`; fault: the LocalSession constructor or the session
\* factory's add raises
StartRouterRealmUplink(realm_id, uplink_id, config, fault) ==
    LET reached == RealmExists(realm_id) /\ ~UplinkExists(realm_id, uplink_id)
        res == IF ~RealmExists(realm_id) THEN NoSuchObject
               ELSE IF UplinkExists(realm_id, uplink_id) THEN AlreadyExists
               ELSE IF fault # "none" THEN ExternalFault
               ELSE Pending
        constructed == reached /\ fault # "session"
    IN
    /\ Call(reached)
    /\ FaultCount(fault, reached)
    /\ realms' = IF reached
                 THEN [realms EXCEPT ![realm_id].uplinks =
                          Put(@, uplink_id, RouterRealmUplink(uplink_id, config))]
                 ELSE realms
    /\ fresh' = IF constructed THEN fresh + 1 ELSE fresh
    /\ app_sessions' = IF res = Pending THEN app_sessions \cup {fresh + 1} ELSE app_sessions
    /\ pending' = IF res = Pending
                  THEN pending \cup {[kind |-> "uplink", realm_id |-> realm_id,
                                      uplink_id |-> uplink_id]}
                  ELSE pending
    /\ last' = Event("start_router_realm_uplink", realm_id, uplink_id, config, res, CallNo(reached))
    /\ UNCHANGED <<realm_to_id, components, transports, transport_order, routers,
                   core_roles, connected, bound, pools, clock, shutdown>>

\* extra['onready'] fires with the uplink session: it is stored in the entry
UplinkReady(p) ==
    /\ last = Idle
    /\ p \in pending /\ p.kind = "uplink"
    /\ pending' = pending \ {p}
    /\ fresh' = fresh + 1
    /\ realms' = [realms EXCEPT ![p.realm_id].uplinks[p.uplink_id].session = fresh + 1]
    /\ last' = Event("start_router_realm_uplink.ready", p.realm_id, p.uplink_id,
                     NoConfig, Ok, 0)
    /\ UNCHANGED <<realm_to_id, components, transports, transport_order, routers,
                   core_roles, app_sessions, connected, bound, pools, calls, faults, clock,
                   shutdown>>

\* extra['onready'] fails: logged and raised again
UplinkReadyFailed(p) ==
    /\ last = Idle
    /\ p \in pending /\ p.kind = "uplink"
    /\ FaultCount("onready", TRUE)
    /\ pending' = pending \ {p}
    /\ last' = Event("start_router_realm_uplink.ready", p.realm_id, p.uplink_id,
                     NoConfig, ExternalFault, 0)
    /\ UNCHANGED <<realms, realm_to_id, components, transports, transport_order, routers,
                   core_roles, app_sessions, connected, bound, pools, calls, fresh, clock,
                   shutdown>>

\* stop_router_realm_uplink(id, uplink_id)
StopRouterRealmUplink(id, uplink_id) ==
    /\ Call(FALSE)
    /\ last' = Event("stop_router_realm_uplink", id, uplink_id, NoConfig, NotImplemented, 0)
    /\ UNCHANGED <<realms, realm_to_id, components, transports, transport_order, routers,
                   core_roles, app_sessions, connected, bound, pools, pending, faults,
                   fresh, clock, shutdown>>

\* ------------------------------------------------------------------ components
\* RouterComponent(id, config, session)
RouterComponent(id, config, session, now) ==
    [id |-> id, config |-> config, session |-> session, created |-> now]

\* the duplicate check left out
ComponentNeverRunning(id) == FALSE

\* the duplicate check of start_router_component
ComponentIsRunning(id) == id \in DOMAIN components

RECURSIVE ResolveReferences(_)
\* the loop over config.get('references', []): Ok when every reference
\* resolves, the error of the first one that does not otherwise
ResolveReferences(refs) ==
    IF refs = <<>> THEN Ok
    ELSE IF Len(Head(refs)) # 2 THEN ValueErr
    ELSE LET ref_type == Head(refs)[1]
             ref_id == Head(refs)[2]
         IN IF ref_type = "connection"
            THEN IF ref_id \in Connections THEN ResolveReferences(Tail(refs))
                 ELSE InvalidConfiguration
            ELSE InvalidConfiguration

\* the registry's values in any order, unsorted
ComponentListingsUnsorted ==
    {q \in [1 .. Cardinality(DOMAIN components) -> DOMAIN components] :
        \A i, j \in DOMAIN q : i # j => q[i] # q[j]}

\* sorted(self.components.values(), key=lambda c: c.created): the registry's
\* IDs ascending in `created`; sorted is stable, so entries of one creation
\* time stay in the order the dict iterates them, the order of insertion,
\* which for components is the order of their sessions' construction. The
\* set holds this one order
ComponentListings ==
    {q \in [1 .. Cardinality(DOMAIN components) -> DOMAIN components] :
        /\ \A i, j \in DOMAIN q : i # j => q[i] # q[j]
        /\ \A i, j \in DOMAIN q :
               i < j => \/ components[q[i]].created < components[q[j]].created
                        \/ /\ components[q[i]].created = components[q[j]].created
                           /\ components[q[i]].session < components[q[j]].session}

\* get_router_components: the summaries' IDs in the order of the listing
GetRouterComponentIds == CHOOSE q \in ComponentListings : TRUE

\* utcstr(ts): the timestamp as a string
UtcStr(ts) == [utc |-> ts]

\* the summary get_router_components appends for a component
ComponentSummary(c) ==
    [id |-> components[c].id, created |-> UtcStr(components[c].created),
     config |-> components[c].config]

\* get_router_components
GetRouterComponents ==
    /\ Call(FALSE)
    /\ \E q \in ComponentListings :
           last' = Event("get_router_components", NoSub, NoSub, NoConfig, Ok, 0)
                   @@ [listed |-> [i \in DOMAIN q |-> ComponentSummary(q[i])]]
    /\ UNCHANGED <<realms, realm_to_id, components, transports, transport_order, routers,
                   core_roles, app_sessions, connected, bound, pools, pending, faults,
                   fresh, clock, shutdown>>

\* start_router_component(id, config); fault: the session factory's add raises
StartRouterComponent(id, config, fault, now) ==
    LET refs == ResolveReferences(config.references)
        res == IF ComponentIsRunning(id) THEN AlreadyRunning
               ELSE IF ~config.check THEN InvalidConfiguration
               ELSE IF refs # Ok THEN refs
               ELSE IF config.load = "loader_raises" THEN ClassImportFailed
               ELSE IF config.load = "create_raises" THEN ExternalFault
               ELSE IF fault # "none" THEN ExternalFault
               ELSE Ok
        reached == res \in {Ok, ExternalFault} /\ config.load = "ok"
        session == fresh + 1
    IN
    /\ Call(reached)
    /\ FaultCount(fault, reached)
    /\ components' = IF reached
                     THEN Put(components, id, RouterComponent(id, config, session, now))
                     ELSE components
    /\ fresh' = IF reached THEN fresh + 1 ELSE fresh
    /\ clock' = IF reached THEN now ELSE clock
    /\ app_sessions' = IF res = Ok THEN app_sessions \cup {session} ELSE app_sessions
    /\ connected' = IF res = Ok THEN connected \cup {session} ELSE connected
    /\ last' = Event("start_router_component", id, NoSub, config, res, CallNo(reached))
    /\ UNCHANGED <<realms, realm_to_id, transports, transport_order, routers, core_roles,
                   bound, pools, pending, shutdown>>

\* self._session_factory: onJoin sets _router_factory and
\* _router_session_factory and no attribute of this name
HasSessionFactory == FALSE

\* stop_router_component(id)
StopRouterComponent(id) ==
    LET res == IF ~ComponentIsRunning(id) THEN NoSuchObject
               ELSE IF ~HasSessionFactory THEN CannotStop
               ELSE Ok
    IN
    /\ Call(res = Ok)
    /\ components' = IF res = Ok THEN Del(components, id) ELSE components
    /\ app_sessions' = IF res = Ok THEN app_sessions \ {components[id].session}
                       ELSE app_sessions
    /\ last' = Event("stop_router_component", id, NoSub, NoConfig, res, CallNo(res = Ok))
    /\ UNCHANGED <<realms, realm_to_id, transports, transport_order, routers, core_roles,
                   connected, bound, pools, pending, faults, fresh, clock, shutdown>>

\* a handler that disconnects the sessions of all components
ComponentPanicDisconnectsAll(id) ==
    /\ last = Idle
    /\ id \in DOMAIN components
    /\ components[id].session \in connected
    /\ connected' = connected \ {components[c].session : c \in DOMAIN components}
    /\ last' = Event("panic", id, NoSub, NoConfig, Ok, 0)
    /\ UNCHANGED <<realms, realm_to_id, components, transports, transport_order, routers,
                   core_roles, app_sessions, bound, pools, pending, calls, faults, fresh,
                   clock, shutdown>>

\* the `panic` handler of a component's session: an exception out of the
\* component's own event handlers disconnects the session
ComponentPanic(id) ==
    /\ last = Idle
    /\ id \in DOMAIN components
    /\ components[id].session \in connected
    /\ connected' = connected \ {components[id].session}
    /\ last' = Event("panic", id, NoSub, NoConfig, Ok, 0)
    /\ UNCHANGED <<realms, realm_to_id, components, transports, transport_order, routers,
                   core_roles, app_sessions, bound, pools, pending, calls, faults, fresh,
                   clock, shutdown>>

\* ------------------------------------------------------------------ shutdown
\* the loop without its is_connected() test
AllComponents == DOMAIN components

\* the registered components whose session.is_connected()
ConnectedComponents == {c \in DOMAIN components : components[c].session \in connected}

\* the component the loop `for component in self.components.values()` visits
\* last: the one inserted last (its session is the youngest object)
LastIterated ==
    IF DOMAIN components = {} THEN NoSub
    ELSE CHOOSE c \in DOMAIN components :
             \A d \in DOMAIN components : components[d].session <= components[c].session

\* one more disconnect() on session s
Disconnect(log, s) == Put(log, s, IF s \in DOMAIN log THEN log[s] + 1 ELSE 1)

\* the parent's onLeave attached to every leave instead of to their list: it
\* runs at every leave that resolves
ParentOnLeaveAtEveryLeave(open) ==
    /\ phase' = IF open = {} THEN "left" ELSE "leaving"
    /\ parent_left' = parent_left + 1

\* DeferredList(leaves).addBoth(parent onLeave): the parent's onLeave runs as
\* soon as no leave is open
ParentOnLeave(open) ==
    /\ phase' = IF open = {} THEN "left" ELSE "leaving"
    /\ parent_left' = IF open = {} THEN parent_left + 1 ELSE parent_left

\* onLeave(details). how[c] is what maybeDeferred(component.session.leave) gives
\* for component c: "fired" (the leave completed at once, `done` runs inside
\* the loop), "raised" (leave raised: a failed Deferred, `done` is skipped) or
\* "open" (a Deferred that fires later)
OnLeave(how) ==
    LET fired == {c \in ConnectedComponents : how[c] = "fired"}
        open == {c \in ConnectedComponents : how[c] = "open"}
    IN
    /\ last = Idle
    /\ phase = "running"
    /\ leave_requested' = {components[c].session : c \in ConnectedComponents}
    /\ disconnected' = [s \in {components[c].session : c \in fired} |-> 1]
    /\ connected' = connected \ {components[c].session : c \in fired}
    /\ leave_pending' = open
    /\ loop_component' = LastIterated
    /\ ParentOnLeave(open)
    /\ last' = Event("onLeave", NoSub, NoSub, NoConfig, Ok, 0)
    /\ UNCHANGED <<realms, realm_to_id, components, transports, transport_order, routers,
                   core_roles, app_sessions, bound, pools, pending, calls, faults, fresh,
                   clock>>

\* the leave Deferred of component c fires: its callback `done` disconnects
\* `component.session`, `component` being the loop variable as the loop left it
LeaveDone(c) ==
    /\ last = Idle
    /\ c \in leave_pending
    /\ leave_pending' = leave_pending \ {c}
    /\ disconnected' = Disconnect(disconnected, components[loop_component].session)
    /\ connected' = connected \ {components[loop_component].session}
    /\ ParentOnLeave(leave_pending \ {c})
    /\ last' = Event("onLeave.done", c, NoSub, NoConfig, Ok, 0)
    /\ UNCHANGED <<realms, realm_to_id, components, transports, transport_order, routers,
                   core_roles, app_sessions, bound, pools, pending, calls, faults, fresh,
                   clock, leave_requested, loop_component>>

\* the leave Deferred of component c fails: `done` is skipped, the
\* DeferredList consumes the error
LeaveFailed(c) ==
    /\ last = Idle
    /\ c \in leave_pending
    /\ leave_pending' = leave_pending \ {c}
    /\ ParentOnLeave(leave_pending \ {c})
    /\ last' = Event("onLeave.failed", c, NoSub, NoConfig, ExternalFault, 0)
    /\ UNCHANGED <<realms, realm_to_id, components, transports, transport_order, routers,
                   core_roles, app_sessions, connected, bound, pools, pending, calls,
                   faults, fresh, clock, leave_requested, disconnected, loop_component>>

\* ------------------------------------------------------------------ transports
\* RouterTransport(id, config, factory, port)
RouterTransport(id, config, factory, port, now) ==
    [id |-> id, config |-> config, factory |-> factory, port |-> port, created |-> now]

\* a duplicate check that also sees the starts waiting for their bind
TransportIsRunningOrStarting(id) ==
    \/ id \in DOMAIN transports
    \/ \E p \in pending : p.kind = "bind" /\ p.id = id

\* the duplicate check of start_router_transport
TransportIsRunning(id) == id \in DOMAIN transports

\* the transport types with a factory of their own
PlainTypes == {"rawsocket", "websocket", "flashpolicy", "websocket.testee", "stream.testee"}

\* the 'web' branch of start_router_transport: the root resource from
\* config['paths']['/'] or a 404 page, then the other paths added under it
WebRoot(config) ==
    IF "paths" \notin DOMAIN config THEN Raised(KeyErr, NoEffects)
    ELSE LET root == IF RootText \in DOMAIN config.paths
                     THEN CreateResource(config.paths[RootText], FALSE, NoEffects)
                     ELSE Built(Resource404, NoEffects)
         IN IF root.err # Ok THEN root
            ELSE AddPaths(root.res, config.paths, root.eff)

\* the selection of the transport factory by config['type']
TransportFactory(config) ==
    IF config.type \in PlainTypes
    THEN Built([kind |-> config.type], NoEffects)
    ELSE IF config.type = "web"
    THEN LET site == WebRoot(config) IN
         IF site.err # Ok THEN site
         ELSE Built([kind |-> "site", root |-> site.res], site.eff)
    ELSE Raised(PlainException, NoEffects)

\* sorted(self.transports.values(), key=lambda c: c.created): the registry's
\* IDs ascending in `created`; sorted is stable, so entries of one creation
\* time stay in the order the dict iterates them. The set holds this one order
TransportListings ==
    LET Place(k) == CHOOSE i \in DOMAIN transport_order : transport_order[i] = k IN
    {q \in [1 .. Cardinality(DOMAIN transports) -> DOMAIN transports] :
        /\ \A i, j \in DOMAIN q : i # j => q[i] # q[j]
        /\ \A i, j \in DOMAIN q :
               i < j => \/ transports[q[i]].created < transports[q[j]].created
                        \/ /\ transports[q[i]].created = transports[q[j]].created
                           /\ Place(q[i]) < Place(q[j])}

\* get_router_transports: the summaries' IDs in the order of the listing
GetRouterTransportIds == CHOOSE q \in TransportListings : TRUE

\* the summary get_router_transports appends for a transport
TransportSummary(t) ==
    [id |-> transports[t].id, created |-> UtcStr(transports[t].created),
     config |-> transports[t].config]

\* get_router_transports
GetRouterTransports ==
    /\ Call(FALSE)
    /\ \E q \in TransportListings :
           last' = Event("get_router_transports", NoSub, NoSub, NoConfig, Ok, 0)
                   @@ [listed |-> [i \in DOMAIN q |-> TransportSummary(q[i])]]
    /\ UNCHANGED <<realms, realm_to_id, components, transports, transport_order, routers,
                   core_roles, app_sessions, connected, bound, pools, pending, faults,
                   fresh, clock, shutdown>>

\* start_router_transport(id, config) up to `return d`: the checks, the
\* factory, and the request for a listening port
StartRouterTransport(id, config) ==
    LET reached == ~TransportIsRunning(id) /\ config.check
        made == TransportFactory(config)
        res == IF TransportIsRunning(id) THEN AlreadyRunning
               ELSE IF ~config.check THEN InvalidConfiguration
               ELSE IF made.err # Ok THEN made.err
               ELSE Pending
        eff == IF reached THEN made.eff ELSE NoEffects
        effect == res = Pending \/ eff # NoEffects
    IN
    /\ Call(effect)
    /\ app_sessions' = app_sessions \cup (fresh + 1 .. fresh + eff.added)
    /\ fresh' = fresh + eff.added
    /\ pools' = pools + eff.started
    /\ pending' = IF res = Pending
                  THEN pending \cup {[kind |-> "bind", call |-> calls + 1, id |-> id,
                                      config |-> config, factory |-> made.res]}
                  ELSE pending
    /\ last' = Event("start_router_transport", id, NoSub, config, res, CallNo(effect))
    /\ UNCHANGED <<realms, realm_to_id, components, transports, transport_order, routers,
                   core_roles, connected, bound, faults, clock, shutdown>>

\* the registry after the callback ok(port) of start_router_transport
TransportStarted(id, config, factory, port, now) ==
    Put(transports, id, RouterTransport(id, config, factory, port, now))

\* the listening port is live: the Deferred fires ok(port)
BindOk(p, now) ==
    /\ last = Idle
    /\ p \in pending /\ p.kind = "bind"
    /\ pending' = pending \ {p}
    /\ fresh' = fresh + 1
    /\ clock' = now
    /\ bound' = bound \cup {fresh + 1}
    /\ transports' = TransportStarted(p.id, p.config, p.factory, fresh + 1, now)
    /\ transport_order' = DictOrder(transport_order, DOMAIN transports')
    /\ last' = Event("start_router_transport.ok", p.id, NoSub, p.config, Ok, p.call)
    /\ UNCHANGED <<realms, realm_to_id, components, routers, core_roles, app_sessions,
                   connected, pools, calls, faults, shutdown>>

\* the errback committing the transport without a port
TransportStartedUnbound(id) ==
    Put(transports, id, RouterTransport(id, NoConfig, [kind |-> "none"], 0, clock))

\* the registry after the errback fail(err) of start_router_transport
TransportNotStarted(id) == transports

\* the bind fails: the Deferred fires fail(err)
BindFailed(p) ==
    /\ last = Idle
    /\ p \in pending /\ p.kind = "bind"
    /\ FaultCount("listen", TRUE)
    /\ pending' = pending \ {p}
    /\ transports' = TransportNotStarted(p.id)
    /\ transport_order' = DictOrder(transport_order, DOMAIN transports')
    /\ last' = Event("start_router_transport.fail", p.id, NoSub, p.config, CannotListen, p.call)
    /\ UNCHANGED <<realms, realm_to_id, components, routers, core_roles, app_sessions,
                   connected, bound, pools, calls, fresh, clock, shutdown>>

\* stop_router_transport(id) up to `return d`: the check and
\* self.transports[id].port.stopListening()
StopRouterTransport(id) ==
    LET res == IF ~TransportIsRunning(id) THEN NotRunning ELSE Pending
    IN
    /\ Call(res = Pending)
    /\ pending' = IF res = Pending
                  THEN pending \cup {[kind |-> "unbind", call |-> calls + 1, id |-> id,
                                      port |-> transports[id].port]}
                  ELSE pending
    /\ last' = Event("stop_router_transport", id, NoSub, NoConfig, res, CallNo(res = Pending))
    /\ UNCHANGED <<realms, realm_to_id, components, transports, transport_order, routers,
                   core_roles, app_sessions, connected, bound, pools, faults, fresh, clock,
                   shutdown>>

\* the callback leaving the entry in the registry
TransportKept(id) == transports

\* the registry after the callback ok(_) of stop_router_transport:
\* del self.transports[id]
TransportStopped(id) == Del(transports, id)

\* the ports bound after stopListening() has succeeded on port
Released(port) == bound \ {port}

\* the listener has stopped: the Deferred fires ok(_); del raises KeyError
\* when the ID is not in the registry any more
UnbindOk(p) ==
    /\ last = Idle
    /\ p \in pending /\ p.kind = "unbind"
    /\ pending' = pending \ {p}
    /\ bound' = Released(p.port)
    /\ transports' = TransportStopped(p.id)
    /\ transport_order' = DictOrder(transport_order, DOMAIN transports')
    /\ last' = Event("stop_router_transport.ok", p.id, NoSub, NoConfig,
                     IF p.id \in DOMAIN transports THEN Ok ELSE KeyErr, p.call)
    /\ UNCHANGED <<realms, realm_to_id, components, routers, core_roles, app_sessions,
                   connected, pools, calls, faults, fresh, clock, shutdown>>

\* the errback dropping the entry all the same
TransportDropped(id) == [x \in DOMAIN transports \ {id} |-> transports[x]]

\* the registry after the errback fail(err) of stop_router_transport
TransportNotStopped(id) == transports

\* stopListening() fails: the Deferred fires fail(err)
UnbindFailed(p) ==
    /\ last = Idle
    /\ p \in pending /\ p.kind = "unbind"
    /\ FaultCount("stop", TRUE)
    /\ pending' = pending \ {p}
    /\ transports' = TransportNotStopped(p.id)
    /\ transport_order' = DictOrder(transport_order, DOMAIN transports')
    /\ last' = Event("stop_router_transport.fail", p.id, NoSub, NoConfig, CannotStop, p.call)
    /\ UNCHANGED <<realms, realm_to_id, components, routers, core_roles,
                   app_sessions, connected, bound, pools, calls, fresh, clock, shutdown>>

\* ------------------------------------------------------------------ specification
\* the handler or callback returns to the event loop: the turn ends, and the
\* next call or Deferred is served
TurnEnds ==
    /\ last # Idle
    /\ last' = Idle
    /\ UNCHANGED <<realms, realm_to_id, components, transports, transport_order, routers,
                   core_roles, app_sessions, connected, bound, pools, pending, calls,
                   faults, fresh, clock, shutdown>>

RealmFaults == {"none", "start_realm", "session", "add"}
UplinkFaults == {"none", "session", "add"}
LeaveOutcomes == {"fired", "raised", "open"}

\* calls on realms, roles and uplinks, and their continuations; every realm
\* start reads the time of day, whether or not it fails later
RealmOps ==
    \/ GetRouterRealms
    \/ \E id \in RealmIds, config \in RealmConfigs, fault \in RealmFaults, now \in Nows :
           StartRouterRealm(id, config, fault, now)
    \/ \E p \in pending : RealmReady(p)
    \/ \E p \in pending : RealmReadyFailed(p)
    \/ \E id \in RealmIds : StopRouterRealm(id)
    \/ \E id \in RealmIds : GetRouterRealmRoles(id)
    \/ \E id \in RealmIds, role_id \in RoleIds, config \in RoleConfigs,
          fault \in {"none", "add_role"} :
           StartRouterRealmRole(id, role_id, config, fault)
    \/ \E id \in RealmIds, role_id \in RoleIds : StopRouterRealmRole(id, role_id)
    \/ \E id \in RealmIds : GetRouterRealmUplinks(id)
    \/ \E id \in RealmIds, uplink_id \in UplinkIds, config \in UplinkConfigs,
          fault \in UplinkFaults :
           StartRouterRealmUplink(id, uplink_id, config, fault)
    \/ \E p \in pending : UplinkReady(p)
    \/ \E p \in pending : UplinkReadyFailed(p)
    \/ \E id \in RealmIds, uplink_id \in UplinkIds : StopRouterRealmUplink(id, uplink_id)

\* calls on components, faults inside components, and the shutdown
ComponentOps ==
    \/ GetRouterComponents
    \/ \E id \in ComponentIds, config \in ComponentConfigs, fault \in {"none", "add"},
          now \in Nows :
           StartRouterComponent(id, config, fault, now)
    \/ \E id \in ComponentIds : StopRouterComponent(id)
    \/ \E id \in ComponentIds : ComponentPanic(id)
    \/ \E how \in [ComponentIds -> LeaveOutcomes] : OnLeave(how)
    \/ \E c \in ComponentIds : LeaveDone(c)
    \/ \E c \in ComponentIds : LeaveFailed(c)

\* calls on transports and their continuations
TransportOps ==
    \/ GetRouterTransports
    \/ \E id \in TransportIds, config \in TransportConfigs : StartRouterTransport(id, config)
    \/ \E p \in pending, now \in Nows : BindOk(p, now)
    \/ \E p \in pending : BindFailed(p)
    \/ \E id \in TransportIds : StopRouterTransport(id)
    \/ \E p \in pending : UnbindOk(p)
    \/ \E p \in pending : UnbindFailed(p)

\* every procedure and continuation of the worker, with configurations of
\* each kind of which one starts and the others fail
MixedOps ==
    \/ GetRouterRealms
    \/ \E id \in RealmIds, config \in {c \in RealmConfigs : c.name = "u1"},
          fault \in RealmFaults, now \in Nows :
           StartRouterRealm(id, config, fault, now)
    \/ \E p \in pending : RealmReady(p)
    \/ \E p \in pending : RealmReadyFailed(p)
    \/ \E id \in RealmIds : StopRouterRealm(id)
    \/ \E id \in RealmIds : GetRouterRealmRoles(id)
    \/ \E id \in RealmIds, role_id \in RoleIds, config \in RoleConfigs,
          fault \in {"none", "add_role"} :
           StartRouterRealmRole(id, role_id, config, fault)
    \/ \E id \in RealmIds, role_id \in RoleIds : StopRouterRealmRole(id, role_id)
    \/ \E id \in RealmIds : GetRouterRealmUplinks(id)
    \/ \E id \in RealmIds, uplink_id \in UplinkIds, config \in UplinkConfigs,
          fault \in UplinkFaults :
           StartRouterRealmUplink(id, uplink_id, config, fault)
    \/ \E p \in pending : UplinkReady(p)
    \/ \E p \in pending : UplinkReadyFailed(p)
    \/ \E id \in RealmIds, uplink_id \in UplinkIds : StopRouterRealmUplink(id, uplink_id)
    \/ GetRouterComponents
    \/ \E id \in ComponentIds,
          config \in {c \in ComponentConfigs : c.check /\ Len(c.references) = 0},
          fault \in {"none", "add"}, now \in Nows :
           StartRouterComponent(id, config, fault, now)
    \/ \E id \in ComponentIds : StopRouterComponent(id)
    \/ \E id \in ComponentIds : ComponentPanic(id)
    \/ \E how \in [ComponentIds -> LeaveOutcomes] : OnLeave(how)
    \/ \E c \in ComponentIds : LeaveDone(c)
    \/ \E c \in ComponentIds : LeaveFailed(c)
    \/ GetRouterTransports
    \/ \E id \in TransportIds,
          config \in {c \in TransportConfigs : "paths" \in DOMAIN c => RootText \in DOMAIN c.paths} :
           StartRouterTransport(id, config)
    \/ \E p \in pending, now \in Nows : BindOk(p, now)
    \/ \E p \in pending : BindFailed(p)
    \/ \E id \in TransportIds : StopRouterTransport(id)
    \/ \E p \in pending : UnbindOk(p)
    \/ \E p \in pending : UnbindFailed(p)

\* the worker with calls on all kinds of entities
Next ==
    \/ MixedOps /\ calls' <= MaxMixedCalls
    \/ TurnEnds

Spec == Init /\ [][Next]_vars

\* the worker with calls on realms, roles and uplinks only
NextRealm == RealmOps \/ TurnEnds

SpecRealm == Init /\ [][NextRealm]_vars

\* the worker with calls on realms and their roles only
NextRoles ==
    \/ \E id \in RealmIds, config \in RealmConfigs, fault \in RealmFaults, now \in Nows :
           StartRouterRealm(id, config, fault, now)
    \/ \E p \in pending : RealmReady(p)
    \/ \E p \in pending : RealmReadyFailed(p)
    \/ \E id \in RealmIds : GetRouterRealmRoles(id)
    \/ \E id \in RealmIds, role_id \in RoleIds, config \in RoleConfigs,
          fault \in {"none", "add_role"} :
           StartRouterRealmRole(id, role_id, config, fault)
    \/ \E id \in RealmIds, role_id \in RoleIds : StopRouterRealmRole(id, role_id)
    \/ TurnEnds

SpecRoles == Init /\ [][NextRoles]_vars

\* the worker with calls on realms and their uplinks only
NextUplinks ==
    \/ \E id \in RealmIds, config \in RealmConfigs, fault \in RealmFaults, now \in Nows :
           StartRouterRealm(id, config, fault, now)
    \/ \E p \in pending : RealmReady(p)
    \/ \E p \in pending : RealmReadyFailed(p)
    \/ \E id \in RealmIds : StopRouterRealm(id)
    \/ \E id \in RealmIds : GetRouterRealmUplinks(id)
    \/ \E id \in RealmIds, uplink_id \in UplinkIds, config \in UplinkConfigs,
          fault \in UplinkFaults :
           StartRouterRealmUplink(id, uplink_id, config, fault)
    \/ \E p \in pending : UplinkReady(p)
    \/ \E p \in pending : UplinkReadyFailed(p)
    \/ \E id \in RealmIds, uplink_id \in UplinkIds : StopRouterRealmUplink(id, uplink_id)
    \/ TurnEnds

SpecUplinks == Init /\ [][NextUplinks]_vars

\* the worker with calls on components only, and its shutdown
NextComponent == ComponentOps \/ TurnEnds

SpecComponent == Init /\ [][NextComponent]_vars

\* the same worker, with the scheduling the reactor guarantees: a handler or
\* callback that runs returns. When the leave of a component completes is up
\* to the component, and the code arms no timer
SpecShutdown == Init /\ [][NextComponent]_vars /\ WF_vars(TurnEnds)

\* the worker with calls on transports, and on realms as far as a schemadoc
\* path needs them
NextTransport ==
    \/ TransportOps
    \/ \E config \in RealmConfigs, now \in Nows : StartRouterRealm("r1", config, "none", now)
    \/ \E p \in pending : RealmReady(p)
    \/ TurnEnds

SpecTransport == Init /\ [][NextTransport]_vars

\* transport IDs for the listings
ListingTransportIds == {"t1", "t2"}

\* the worker with the calls that fill and list the registries of components
\* and transports
NextListing ==
    \/ GetRouterComponents
    \/ \E id \in ComponentIds, config \in {c \in ComponentConfigs : c.check /\ c.load = "ok"},
          now \in Nows :
           StartRouterComponent(id, config, "none", now)
    \/ GetRouterTransports
    \/ \E id \in ListingTransportIds :
           StartRouterTransport(id, PlainTransport("rawsocket", TRUE))
    \/ \E p \in pending, now \in Nows : BindOk(p, now)
    \/ \E id \in ListingTransportIds : StopRouterTransport(id)
    \/ \E p \in pending : UnbindOk(p)
    \/ TurnEnds

SpecListing == Init /\ [][NextListing]_vars

\* configurations that name realm URI u2, and configurations that fail
FrameRealmConfigs == {RealmConfig("u2", TRUE), RealmConfig("u1", FALSE)}
FrameComponentConfigs ==
    {CompConfig("u2", TRUE, << <<"connection", "db1">> >>, "ok"),
     CompConfig("u1", FALSE, <<>>, "ok"),
     CompConfig("u1", TRUE, << <<"connection", "db1">>, <<"connection", "db9">> >>, "ok"),
     CompConfig("u1", TRUE, << <<"realm", "r1">> >>, "ok"),
     CompConfig("u1", TRUE, << <<"connection">>, <<"realm", "r1">> >>, "ok")}
FrameTransportConfigs ==
    {WebTransport(Paths2(KeyA, PathOf(Paths1(KeyB, Json(3))), KeyC, SchemaDoc("u2"))),
     WebTransport(Paths2(KeyA, SchemaDoc("u1"), KeyB, Bogus))}

\* the worker with one entity of every kind, a realm and the role, uplink,
\* component and transport that refer to it
NextFrame ==
    \/ \E config \in FrameRealmConfigs, now \in Nows :
           StartRouterRealm("r1", config, "none", now)
    \/ \E p \in pending : RealmReady(p)
    \/ \E id \in RealmIds, config \in RoleConfigs, fault \in {"none", "add_role"} :
           StartRouterRealmRole(id, "ro1", config, fault)
    \/ \E id \in RealmIds : StopRouterRealmRole(id, "ro1")
    \/ \E config \in UplinkConfigs, fault \in UplinkFaults :
           StartRouterRealmUplink("r1", "up1", config, fault)
    \/ \E p \in pending : UplinkReady(p)
    \/ \E p \in pending : UplinkReadyFailed(p)
    \/ \E config \in FrameComponentConfigs, fault \in {"none", "add"}, now \in Nows :
           StartRouterComponent("c1", config, fault, now)
    \/ StopRouterComponent("c1")
    \/ \E config \in FrameTransportConfigs : StartRouterTransport("t1", config)
    \/ \E p \in pending, now \in Nows : BindOk(p, now)
    \/ \E p \in pending : BindFailed(p)
    \/ StopRouterTransport("t1")
    \/ \E p \in pending : UnbindOk(p)
    \/ \E p \in pending : UnbindFailed(p)
    \/ TurnEnds

SpecFrame == Init /\ [][NextFrame]_vars

\* the worker with start calls only, and the continuations that commit; the
\* configurations for repeated starts of one ID are one that is valid and
\* ones that fail validation
NextAgain ==
    \/ \E id \in RealmIds, config \in {RealmConfig("u1", TRUE), RealmConfig("u2", FALSE)},
          now \in Nows :
           StartRouterRealm(id, config, "none", now)
    \/ \E p \in pending : RealmReady(p)
    \/ \E id \in ComponentIds,
          config \in {CompConfig("u1", TRUE, <<>>, "ok"),
                      CompConfig("u1", FALSE, <<>>, "ok"),
                      CompConfig("u1", TRUE, << <<"realm", "r1">> >>, "ok")},
          now \in Nows :
           StartRouterComponent(id, config, "none", now)
    \/ \E id \in TransportIds,
          config \in {PlainTransport("rawsocket", TRUE),
                      PlainTransport("rawsocket", FALSE),
                      WebTransport(Paths1(RootText, Bogus))} :
           StartRouterTransport(id, config)
    \/ \E p \in pending, now \in Nows : BindOk(p, now)
    \/ TurnEnds

SpecAgain == Init /\ [][NextAgain]_vars

\* ------------------------------------------------------------------ claims
\* the step is the call or continuation named op
Ran(op) == last'.op = op

\* a start of transport id that has not failed: its bind is pending
BindPending(id) == \E p \in pending : p.kind = "bind" /\ p.id = id

\* C1: a start call for an id that an earlier start call, which
\* did not fail and was not followed by a stop, has started (the entry is in
\* the registry, or the earlier call is still suspended) fails with
\* already_running (realm, component, transport) or already_exists (role,
\* uplink) and leaves the registries as they are.
C1_SecondStartRejected ==
    [][ /\ Ran("start_router_realm") /\ last'.id \in DOMAIN realms
           => last'.res = AlreadyRunning /\ realms' = realms /\ realm_to_id' = realm_to_id
        /\ Ran("start_router_realm_role") /\ last'.id \in DOMAIN realms
             /\ last'.sub \in DOMAIN realms[last'.id].roles
           => last'.res = AlreadyExists /\ realms' = realms
        /\ Ran("start_router_realm_uplink") /\ last'.id \in DOMAIN realms
             /\ last'.sub \in DOMAIN realms[last'.id].uplinks
           => last'.res = AlreadyExists /\ realms' = realms
        /\ Ran("start_router_component") /\ last'.id \in DOMAIN components
             /\ components[last'.id].session \in app_sessions
           => last'.res = AlreadyRunning /\ components' = components
        /\ Ran("start_router_transport")
             /\ (last'.id \in DOMAIN transports \/ BindPending(last'.id))
           => last'.res = AlreadyRunning /\ transports' = transports /\ pending' = pending
      ]_vars

\* the realms whose configuration names the URI
RealmsOfUri(uri) == {id \in DOMAIN realms : realms[id].config.name = uri}

\* C10: the realm registry and the URI index are consistent:
\* every registered realm's URI maps to that realm's ID, every index entry
\* points to a registered realm with that URI, and no two realms share a URI.
C10_IndexConsistent ==
    /\ \A id \in DOMAIN realms :
           /\ realms[id].config.name \in DOMAIN realm_to_id
           /\ realm_to_id[realms[id].config.name] = id
    /\ \A uri \in DOMAIN realm_to_id :
           /\ realm_to_id[uri] \in DOMAIN realms
           /\ realms[realm_to_id[uri]].config.name = uri
    /\ \A uri \in Uris : Cardinality(RealmsOfUri(uri)) <= 1

\* C4: stop_router_component for a registered ID removes the
\* component's session from the router session factory and the ID from the
\* registry, and fails (with cannot_stop) only when that removal fails.
C4_StopRemovesComponent ==
    [][ Ran("stop_router_component") /\ last'.id \in DOMAIN components
        => /\ last'.res = Ok
           /\ last'.id \notin DOMAIN components'
           /\ components[last'.id].session \notin app_sessions'
      ]_vars

\* a component configuration start_router_component accepts: it passes the
\* check, its references resolve and its code loads
ValidComponentConfig(config) ==
    /\ config.check
    /\ ResolveReferences(config.references) = Ok
    /\ config.load = "ok"

\* C2: of start_router_component calls with one ID and valid configurations,
\* whose collaborators do not fail, the one that finds the ID absent succeeds
\* and commits its own component, and every one that finds the ID present
\* fails with already_running and leaves the registry as it is: the registry
\* holds the component of the call that succeeded, in either order.
C2_OneComponentStartWins ==
    [][ Ran("start_router_component") /\ ValidComponentConfig(last'.config)
          /\ faults' = faults
        => IF last'.id \in DOMAIN components
           THEN last'.res = AlreadyRunning /\ components' = components
           ELSE /\ last'.res = Ok
                /\ DOMAIN components' = DOMAIN components \cup {last'.id}
                /\ components'[last'.id].config = last'.config
                /\ components'[last'.id].id = last'.id
                /\ components'[last'.id].session \in app_sessions' \ app_sessions
                /\ \A c \in DOMAIN components : components'[c] = components[c]
      ]_vars

\* C2 witness: a valid start was rejected with already_running, and the
\* registry holds the component of another valid start, attached
C2_Witness ==
    /\ last.op = "start_router_component"
    /\ last.res = AlreadyRunning
    /\ ValidComponentConfig(last.config)
    /\ ValidComponentConfig(components[last.id].config)
    /\ components[last.id].config # last.config
    /\ components[last.id].session \in app_sessions

\* the IDs get_router_transports lists
ListedTransports == {GetRouterTransportIds[i] : i \in DOMAIN GetRouterTransportIds}

\* C3: when the listener of a stop_router_transport call has stopped, the
\* transport's ID is not in the registry, get_router_transports does not list
\* it, and the port the call stopped is not bound; the ID comes back into the
\* registry only by the success continuation of a start of that ID.
C3_StopRemovesTransport ==
    [][ /\ Ran("stop_router_transport.ok")
           => /\ last'.id \notin DOMAIN transports'
              /\ last'.id \notin ListedTransports'
              /\ \A p \in pending \ pending' : p.port \notin bound'
        /\ \A id \in TransportIds :
               id \notin DOMAIN transports /\ id \in DOMAIN transports'
               => Ran("start_router_transport.ok") /\ last'.id = id
      ]_vars

\* C3 witness: a started transport has been stopped: nothing is registered
\* and nothing is bound
C3_Witness ==
    /\ last.op = "stop_router_transport.ok"
    /\ last.res = Ok
    /\ last.id \notin DOMAIN transports
    /\ last.id \notin ListedTransports
    /\ bound = {}
    /\ fresh > 0

\* what a call that fails without effect leaves as it is
NothingChanges ==
    UNCHANGED <<realms, realm_to_id, components, transports, transport_order, routers,
                core_roles, app_sessions, connected, bound, pools, pending>>

\* C5: a stop for an ID that is not in its registry fails and changes
\* nothing: stop_router_realm_role with no_such_object when the realm or the
\* role is absent, stop_router_component with no_such_object, and
\* stop_router_transport with not_running.
C5_StopOfAbsentFails ==
    [][ /\ Ran("stop_router_realm_role")
             /\ (last'.id \notin DOMAIN realms
                 \/ last'.sub \notin DOMAIN realms[last'.id].roles)
           => last'.res = NoSuchObject /\ NothingChanges
        /\ Ran("stop_router_component") /\ last'.id \notin DOMAIN components
           => last'.res = NoSuchObject /\ NothingChanges
        /\ Ran("stop_router_transport") /\ last'.id \notin DOMAIN transports
           => last'.res = NotRunning /\ NothingChanges
      ]_vars

\* C5 witness: a role was started in a realm and stopped, and a second stop
\* of it has failed with no_such_object (the routing core, which no stop
\* touches, still holds the role the start gave it)
C5_Witness ==
    /\ last.op = "stop_router_realm_role"
    /\ last.res = NoSuchObject
    /\ last.id \in DOMAIN realms
    /\ last.sub \notin DOMAIN realms[last.id].roles
    /\ core_roles[realms[last.id].config.name] # {}
    /\ calls = 3

\* C6: start_router_realm_role for a realm that is not in the registry fails
\* with no_such_object and adds no role; a role ID that is free in the named
\* realm is never refused with already_exists, whatever roles other realms
\* hold; and the call leaves the entries of all other realms as they are.
C6_RolesPerRealm ==
    [][ Ran("start_router_realm_role")
        => /\ last'.id \notin DOMAIN realms
              => /\ last'.res = NoSuchObject
                 /\ realms' = realms
                 /\ core_roles' = core_roles
           /\ last'.id \in DOMAIN realms /\ last'.sub \notin DOMAIN realms[last'.id].roles
              => /\ last'.res # AlreadyExists
                 /\ last'.sub \in DOMAIN realms'[last'.id].roles
           /\ \A other \in DOMAIN realms \ {last'.id} : realms'[other] = realms[other]
      ]_vars

\* C6 witness: a role ID has been started in one realm while another realm
\* held a role of the same ID
C6_Witness ==
    /\ last.op = "start_router_realm_role"
    /\ last.res = Ok
    /\ \E other \in DOMAIN realms \ {last.id} :
           /\ last.sub \in DOMAIN realms[other].roles
           /\ realms[other].roles[last.sub].config # realms[last.id].roles[last.sub].config

\* C7: start_router_transport leaves the registry as it is; an ID enters
\* the registry only in the success continuation of its bind, with its port
\* bound; and when the bind fails the call fails with cannot_listen and the
\* registry is as before.
C7_CommitAfterBind ==
    [][ /\ Ran("start_router_transport") => transports' = transports
        /\ \A id \in TransportIds :
               id \in DOMAIN transports' /\ (id \notin DOMAIN transports
                                             \/ transports'[id] # transports[id])
               => /\ Ran("start_router_transport.ok")
                  /\ last'.id = id
                  /\ transports'[id].port \in bound' \ bound
        /\ Ran("start_router_transport.fail")
           => last'.res = CannotListen /\ transports' = transports /\ bound' = bound
      ]_vars

\* C7 witness: a bind has failed and the registry holds nothing of it
C7_Witness ==
    /\ last.op = "start_router_transport.fail"
    /\ last.res = CannotListen
    /\ last.id \notin DOMAIN transports
    /\ calls > 0

\* the path types _create_resource has a branch for
KnownPathTypes ==
    {"websocket", "static", "wsgi", "redirect", "json", "cgi", "longpoll",
     "publisher", "webhook", "caller", "upload", "resource", "schemadoc", "path"}

RECURSIVE HasPathType(_, _)
\* the tree under path entry pc holds an entry whose type is in types
HasPathType(pc, types) ==
    \/ pc.type \in types
    \/ /\ pc.type = "path"
       /\ \E k \in DOMAIN NestedPaths(pc) : HasPathType(NestedPaths(pc)[k], types)

RECURSIVE HasUnknownPathType(_)
\* the tree under path entry pc holds an entry of a type with no branch
HasUnknownPathType(pc) ==
    \/ pc.type \notin KnownPathTypes
    \/ /\ pc.type = "path"
       /\ \E k \in DOMAIN NestedPaths(pc) : HasUnknownPathType(NestedPaths(pc)[k])

\* a start_router_transport call of a web configuration with an entry of
\* unknown type, for an ID the registry does not hold
StartsUnknownPathType ==
    /\ Ran("start_router_transport")
    /\ last'.config.type = "web"
    /\ "paths" \in DOMAIN last'.config
    /\ \E k \in DOMAIN last'.config.paths : HasUnknownPathType(last'.config.paths[k])
    /\ last'.id \notin DOMAIN transports

\* C8 as stated: a web start with an entry of unknown type anywhere in its
\* path tree fails with invalid_configuration, registers nothing and
\* requests no port.
C8_UnknownPathTypeInvalid ==
    [][ StartsUnknownPathType
        => /\ last'.res = InvalidConfiguration
           /\ transports' = transports
           /\ pending' = pending
           /\ bound' = bound
      ]_vars

\* C9: onLeave requests a leave of exactly the sessions of the registered
\* components that are connected when it runs, and of no other session; no
\* leave is requested before or after it; and the parent's onLeave runs only
\* in or after onLeave, when no requested leave is open.
C9_LeaveBeforeParent ==
    [][ /\ Ran("onLeave")
           => leave_requested' = {components[c].session :
                                     c \in {d \in DOMAIN components :
                                               components[d].session \in connected}}
        /\ ~Ran("onLeave") => leave_requested' = leave_requested
        /\ parent_left' # parent_left
           => /\ Ran("onLeave") \/ phase = "leaving"
              /\ phase' = "left"
              /\ leave_pending' = {}
              /\ \A c \in DOMAIN components :
                     components[c].session \in connected'
                     => components[c].session \in leave_requested'
      ]_vars

\* C9 witness: the parent's onLeave has run after a leave was requested of a
\* connected component, and none was requested of a registered component
\* that was not connected
C9_Witness ==
    /\ parent_left = 1
    /\ leave_requested # {}
    /\ \E c \in DOMAIN components : components[c].session \notin leave_requested
    /\ \E c \in DOMAIN components : components[c].session \in leave_requested

\* C11: when the handshake of a realm start or of an uplink start fails, the
\* entity is not committed: the realm is in neither the registry nor the URI
\* index, respectively the uplink is not in the realm's uplink map.
C11_FailedHandshakeCommitsNothing ==
    [][ /\ Ran("start_router_realm.ready") /\ last'.res = ExternalFault
           => /\ last'.id \notin DOMAIN realms'
              /\ \A uri \in DOMAIN realm_to_id' : realm_to_id'[uri] # last'.id
        /\ Ran("start_router_realm_uplink.ready") /\ last'.res = ExternalFault
           => last'.sub \notin DOMAIN realms'[last'.id].uplinks
      ]_vars

\* C12: stop_router_realm and stop_router_realm_uplink fail with
\* NotImplementedError for every ID and change nothing; and no step takes a
\* realm out of the registry or an uplink out of a realm's uplink map.
C12_RealmStopsNotImplemented ==
    [][ /\ Ran("stop_router_realm") => last'.res = NotImplemented /\ NothingChanges
        /\ Ran("stop_router_realm_uplink") => last'.res = NotImplemented /\ NothingChanges
        /\ \A id \in DOMAIN realms :
               /\ id \in DOMAIN realms'
               /\ DOMAIN realms[id].uplinks \subseteq DOMAIN realms'[id].uplinks
      ]_vars

\* C12 witness: stop_router_realm of a registered realm that holds an uplink
\* has failed, and both are still there
C12_Witness ==
    /\ last.op = "stop_router_realm"
    /\ last.res = NotImplemented
    /\ last.id \in DOMAIN realms
    /\ realms[last.id].uplinks # EmptyMap

\* C13: the list operations return without an error and change nothing:
\* get_router_realms, get_router_components and get_router_transports in
\* every state, get_router_realm_roles and get_router_realm_uplinks for
\* every registered realm ID.
C13_ListsNeverFail ==
    [][ /\ Ran("get_router_realms") \/ Ran("get_router_components")
             \/ Ran("get_router_transports")
           => last'.res = Ok /\ NothingChanges
        /\ (Ran("get_router_realm_roles") \/ Ran("get_router_realm_uplinks"))
             /\ last'.id \in DOMAIN realms
           => last'.res = Ok /\ NothingChanges
      ]_vars

\* a listing r gives one summary {id, created, config} for each entry of
\* registry reg, ascending in creation time, and entries of different
\* creation times in the order of their commits; order[e] grows with the
\* commit of entry e
ListsRegistry(r, reg, order) ==
    /\ DOMAIN r = 1 .. Cardinality(DOMAIN reg)
    /\ \A e \in DOMAIN reg :
           \E i \in DOMAIN r :
               /\ r[i] = [id |-> e, created |-> UtcStr(reg[e].created), config |-> reg[e].config]
               /\ \A j \in DOMAIN r : r[j].id = e => j = i
    /\ \A i, j \in DOMAIN r :
           i < j => /\ reg[r[i].id].created <= reg[r[j].id].created
                    /\ reg[r[i].id].created # reg[r[j].id].created
                       => order[r[i].id] < order[r[j].id]

\* C14: get_router_components and get_router_transports return one summary
\* {id, created, config} for each entry of their registry and no other,
\* ascending in creation time; entries of different creation times come in
\* the order in which they were committed.
C14_ListsSortedByCreation ==
    [][ /\ Ran("get_router_components")
           => ListsRegistry(last'.listed, components,
                            [c \in DOMAIN components |-> components[c].session])
        /\ Ran("get_router_transports")
           => ListsRegistry(last'.listed, transports,
                            [t \in DOMAIN transports |-> transports[t].port])
      ]_vars

\* C14 witness: a listing of two transports committed at different times,
\* while two components are registered
C14_Witness ==
    /\ last.op = "get_router_transports"
    /\ Len(last.listed) = 2
    /\ last.listed[1].created # last.listed[2].created
    /\ Cardinality(DOMAIN components) = 2

\* maps f and g agree on every key but k
SameBut(f, g, k) ==
    \A x \in (DOMAIN f \cup DOMAIN g) \ {k} :
        x \in DOMAIN f /\ x \in DOMAIN g /\ f[x] = g[x]

\* the step is a start, or the continuation of a start, that fails
FailedStart(ops) == last'.op \in ops /\ IsFailure(last'.res)

\* C15: a stop or a failed start changes no registry but that of its kind,
\* and there only the entry of its ID: a role stop or failed role or uplink
\* start changes only the named realm's entry (a role stop only its role
\* map) and leaves the URI index, components and transports as they are; a
\* stop or failed start of a component or transport leaves realms and the
\* URI index as they are and changes only its own entry; a failed realm
\* start changes only that realm's entry; and no step on a component or
\* transport takes a realm out of the registry.
C15_RegistriesIndependent ==
    [][ /\ Ran("stop_router_realm_role")
           => /\ SameBut(realms, realms', last'.id)
              /\ last'.id \in DOMAIN realms
                 => /\ last'.id \in DOMAIN realms'
                    /\ realms'[last'.id] =
                         [realms[last'.id] EXCEPT !.roles = realms'[last'.id].roles]
              /\ UNCHANGED <<realm_to_id, components, transports>>
        /\ FailedStart({"start_router_realm", "start_router_realm.ready"})
           => SameBut(realms, realms', last'.id) /\ UNCHANGED <<components, transports>>
        /\ FailedStart({"start_router_realm_role", "start_router_realm_uplink",
                        "start_router_realm_uplink.ready"})
           => /\ SameBut(realms, realms', last'.id)
              /\ UNCHANGED <<realm_to_id, components, transports>>
        /\ \/ last'.op \in {"stop_router_component"}
           \/ FailedStart({"start_router_component"})
           => /\ SameBut(components, components', last'.id)
              /\ UNCHANGED <<realms, realm_to_id, transports>>
        /\ \/ last'.op \in {"stop_router_transport", "stop_router_transport.ok",
                            "stop_router_transport.fail"}
           \/ FailedStart({"start_router_transport", "start_router_transport.fail"})
           => /\ SameBut(transports, transports', last'.id)
              /\ UNCHANGED <<realms, realm_to_id, components>>
        /\ last'.op \in {"start_router_component", "stop_router_component", "panic",
                         "start_router_transport", "start_router_transport.ok",
                         "start_router_transport.fail", "stop_router_transport",
                         "stop_router_transport.ok", "stop_router_transport.fail"}
           => realms' = realms /\ realm_to_id' = realm_to_id
      ]_vars

\* C15 witness: a transport whose schemadoc path names a realm has been
\* stopped; the realm and a component of that realm are still registered
C15_Witness ==
    /\ last.op = "stop_router_transport.ok"
    /\ last.res = Ok
    /\ transports = EmptyMap
    /\ \E r \in DOMAIN realms, c \in DOMAIN components :
           /\ components[c].config.realm = realms[r].config.name
           /\ realm_to_id[realms[r].config.name] = r

\* the fault codes of the taxonomy
StructuredCodes ==
    {AlreadyRunning, AlreadyExists, NoSuchObject, InvalidConfiguration, CannotListen,
     CannotStop, ClassImportFailed, NotRunning}

\* the management procedures and their continuations, whose outcome goes to
\* the caller
ManagementOps ==
    {"get_router_realms", "start_router_realm", "start_router_realm.ready",
     "stop_router_realm", "get_router_realm_roles", "start_router_realm_role",
     "stop_router_realm_role", "get_router_realm_uplinks", "start_router_realm_uplink",
     "start_router_realm_uplink.ready", "stop_router_realm_uplink",
     "get_router_components", "start_router_component", "stop_router_component",
     "get_router_transports", "start_router_transport", "start_router_transport.ok",
     "start_router_transport.fail", "stop_router_transport", "stop_router_transport.ok",
     "stop_router_transport.fail"}

\* C16: a management call that fails, fails with a fault code of the
\* taxonomy, or, for stop_router_realm and stop_router_realm_uplink, with
\* NotImplementedError; no call fails with another exception.
C16_StructuredErrorsOnly ==
    [][ last'.op \in ManagementOps /\ IsFailure(last'.res)
        => \/ last'.res \in StructuredCodes
           \/ /\ last'.op \in {"stop_router_realm", "stop_router_realm_uplink"}
              /\ last'.res = NotImplemented
      ]_vars

\* the loop over the references comes to one of unknown kind or to a
\* connection that is not in the pool: a reference of two parts that does not
\* resolve, with only references of two parts before it (a reference that does
\* not split into two parts ends the loop with ValueError at line 625)
HasBadReference(config) ==
    \E i \in DOMAIN config.references :
        /\ \A j \in 1 .. i : Len(config.references[j]) = 2
        /\ \/ config.references[i][1] # "connection"
           \/ config.references[i][2] \notin Connections

\* C17: a start of an ID that is not in its registry, with a configuration
\* that fails validation, fails with invalid_configuration and changes
\* nothing: registries, URI index, routing core and session factory are as
\* before. For start_router_realm the failure is the schema check; for
\* start_router_component it is the schema check, or a reference "kind:id"
\* anywhere in the list whose kind is not "connection" or whose connection
\* id is not in the pool.
C17_InvalidConfigurationNoPartialState ==
    [][ /\ Ran("start_router_realm") /\ last'.id \notin DOMAIN realms
             /\ ~last'.config.check
           => last'.res = InvalidConfiguration /\ NothingChanges
        /\ Ran("start_router_component") /\ last'.id \notin DOMAIN components
             /\ (\/ ~last'.config.check
                 \/ \E i \in DOMAIN last'.config.references :
                        /\ Len(last'.config.references[i]) = 2
                        /\ \/ last'.config.references[i][1] # "connection"
                           \/ last'.config.references[i][2] \notin Connections)
           => last'.res = InvalidConfiguration /\ NothingChanges
      ]_vars

\* the bound listeners that no registry entry refers to and no pending stop
\* is about to release
Orphans ==
    {port \in bound :
        /\ \A t \in DOMAIN transports : transports[t].port # port
        /\ \A p \in pending : p.kind = "unbind" => p.port # port}

\* C18: a start_router_transport call for an ID that is not in the registry
\* passes the duplicate check also while a bind of that ID is pending, and
\* requests a listener of its own; every bind that succeeds reports success,
\* puts its own transport into the registry slot and leaves the listener the
\* slot held before bound; stop_router_transport stops only the listener the
\* registry holds, so a listener that no entry refers to stays bound.
C18_OverlappingStartsOrphanListener ==
    [][ /\ Ran("start_router_transport") /\ last'.id \notin DOMAIN transports
             /\ last'.config = PlainTransport("rawsocket", TRUE)
           => /\ last'.res = Pending
              /\ \E p \in pending' \ pending :
                     p.kind = "bind" /\ p.id = last'.id /\ p.call = last'.call
        /\ Ran("start_router_transport.ok")
           => /\ last'.res = Ok
              /\ transports'[last'.id].config = last'.config
              /\ transports'[last'.id].port \notin bound
              /\ bound' = bound \cup {transports'[last'.id].port}
        /\ Ran("stop_router_transport")
           => \A p \in pending' \ pending :
                  p.kind = "unbind" /\ p.port = transports[last'.id].port
        /\ Orphans \subseteq Orphans'
      ]_vars

\* C18 witness: of two overlapping starts of one ID both binds have
\* succeeded, the bind of the first call last: the registry holds the
\* transport of the first call and the listener of the second is bound with
\* no entry referring to it
C18_Witness ==
    /\ last.op = "start_router_transport.ok"
    /\ last.res = Ok
    /\ last.call = 1
    /\ calls = 2
    /\ pending = {}
    /\ transports[last.id].port \in bound
    /\ Orphans # {}
    /\ Cardinality(bound) = 2

\* C19: while a realm start waits for the ready signal of its service
\* session, the realm ID is in neither the registry nor the URI index.
C19_RealmCommittedAfterReady ==
    \A p \in pending :
        p.kind = "realm"
        => /\ p.id \notin DOMAIN realms
           /\ \A uri \in DOMAIN realm_to_id : realm_to_id[uri] # p.id

\* C20: the session of every component in the registry is attached to the
\* router session factory.
C20_RegisteredComponentAttached ==
    \A c \in DOMAIN components : components[c].session \in app_sessions

\* the role configurations in the role map of realm id
RoleMapConfigs(id) == {realms[id].roles[r].config : r \in DOMAIN realms[id].roles}

\* C21: for every registered realm, the roles in the realm's role map are
\* the roles registered with the routing core for the realm's URI: a started
\* role is in both, a stopped role in neither, and a role whose add failed in
\* the routing core is in neither.
C21_RoleMapMatchesCore ==
    \A id \in DOMAIN realms : RoleMapConfigs(id) = core_roles[realms[id].config.name]

\* a start of uplink u of realm r awaits its connected signal
UplinkPending(r, u) ==
    \E p \in pending : p.kind = "uplink" /\ p.realm_id = r /\ p.uplink_id = u

\* the uplink entries of the registry, as pairs of realm ID and uplink ID
UplinkEntries == {ru \in RealmIds \X UplinkIds :
                     ru[1] \in DOMAIN realms /\ ru[2] \in DOMAIN realms[ru[1]].uplinks}

\* C22: start_router_realm_uplink records the entry with a null session
\* before it suspends, so a second start of the same realm and uplink ID issued
\* while the first awaits the connected signal fails with already_exists and
\* changes nothing; the session of an entry is null while its start awaits the
\* signal, becomes non-null only in the step in which the connected signal of
\* its start succeeds, and is then the session that signal delivers.
C22_UplinkPlaceholder ==
    [][/\ \A ru \in UplinkEntries' :
             LET new == realms'[ru[1]].uplinks[ru[2]]
                 ready == /\ Ran("start_router_realm_uplink.ready")
                          /\ last'.id = ru[1] /\ last'.sub = ru[2]
             IN
             /\ UplinkPending(ru[1], ru[2])' => new.session = NoSession
             /\ IF ru \in UplinkEntries
                THEN /\ ready /\ last'.res = Ok
                           => new.session = fresh + 1 /\ new.session # NoSession
                     /\ ~(ready /\ last'.res = Ok)
                           => new.session = realms[ru[1]].uplinks[ru[2]].session
                ELSE /\ Ran("start_router_realm_uplink")
                     /\ last'.id = ru[1] /\ last'.sub = ru[2]
                     /\ new.session = NoSession
       /\ Ran("start_router_realm_uplink") /\ UplinkPending(last'.id, last'.sub)
             => last'.res = AlreadyExists /\ NothingChanges]_vars

\* a second start of an uplink is rejected while the first awaits the
\* connected signal, and the uplink of another realm holds the session its
\* signal delivered
C22_Witness ==
    /\ last.op = "start_router_realm_uplink" /\ last.res = AlreadyExists
    /\ UplinkPending(last.id, last.sub)
    /\ realms[last.id].uplinks[last.sub].session = NoSession
    /\ \E ru \in UplinkEntries : realms[ru[1]].uplinks[ru[2]].session # NoSession

\* C23: the wait for the components on shutdown is bounded: once onLeave
\* has asked the connected components to leave, the parent's onLeave is
\* eventually invoked, also when the leave of a component never completes.
C23_ShutdownWaitBounded == (phase = "leaving") ~> (phase = "left")

\* C24: on shutdown, the completion of a component's leave disconnects the
\* session of the component that left, and no session is disconnected more
\* than once, whatever the number of connected components and the order in
\* which their leaves complete.
C24_LeaveDisconnectsOwnSession ==
    [][/\ \A s \in DOMAIN disconnected' : disconnected'[s] = 1
       /\ Ran("onLeave.done")
             => disconnected' = Disconnect(disconnected, components[last'.id].session)]_vars

\* C25: a start_router_transport call that fails while the resource tree
\* is built, with invalid_configuration or no_such_object, has constructed
\* nothing: it has added no session to the router session factory and started
\* no thread pool, whatever paths sort before the failing one.
C25_FailedTreeConstructsNothing ==
    [][Ran("start_router_transport") /\ last'.config.type = "web"
          /\ last'.res \in {InvalidConfiguration, NoSuchObject}
          => app_sessions' = app_sessions /\ pools' = pools]_vars

\* C26: when stopping the listener fails, stop_router_transport fails
\* with cannot_stop and leaves the registry as it is: the transport the call
\* tried to stop keeps its config, factory and port, is still listed by
\* get_router_transports, and a stop of its ID is accepted again.
C26_FailedStopKeepsTransport ==
    [][Ran("stop_router_transport.fail")
          => /\ last'.res = CannotStop
             /\ transports' = transports
             /\ \A p \in pending \ pending' :
                    p.id \in DOMAIN transports /\ transports[p.id].port = p.port
                    => /\ transports'[p.id] = transports[p.id]
                       /\ p.id \in ListedTransports'
                       /\ TransportIsRunning(p.id)']_vars

\* C26 witness: a stop has failed and its transport is registered, listed and
\* bound as before
C26_Witness ==
    /\ last.op = "stop_router_transport.fail"
    /\ last.res = CannotStop
    /\ last.id \in DOMAIN transports
    /\ last.id \in ListedTransports
    /\ transports[last.id].port \in bound

RECURSIVE ChildrenOfNonRootKeys(_, _)
\* the children of resource are those of the keys of paths other than the
\* root key, one for each, and so on down the nested 'path' containers
ChildrenOfNonRootKeys(resource, paths) ==
    /\ DOMAIN resource.children = {WebPath(k) : k \in DOMAIN paths \ {RootText, RootBytes}}
    /\ \A k \in DOMAIN paths \ {RootText, RootBytes} :
           paths[k].type = "path"
           => ChildrenOfNonRootKeys(resource.children[WebPath(k)], NestedPaths(paths[k]))

\* C27: _add_paths attaches one child resource for every key of the path
\* map other than the root key '/', and none for the root key: the resource
\* of '/' is the container's root and is not also attached as a child, for a
\* text key and for a byte string key.
C27_RootKeyNotAChild ==
    \A p \in pending :
        p.kind = "bind" /\ p.config.type = "web"
        => ChildrenOfNonRootKeys(p.factory.root, p.config.paths)

RECURSIVE RootAsDeclared(_, _)
RECURSIVE BuiltFromEntry(_, _)
\* resource is what the builder makes of path entry pc: of its type, a json
\* resource with the entry's value, a container with the root its paths declare
BuiltFromEntry(resource, pc) ==
    CASE pc.type = "json" -> resource.kind = "json" /\ resource.value = pc.value
      [] pc.type = "path" -> RootAsDeclared(resource, NestedPaths(pc))
      [] pc.type = "resource" -> resource.kind = "custom"
      [] OTHER -> resource.kind = pc.type

\* resource is the root a container with these paths is to have: the resource
\* of the '/' entry, or a 404 page when there is none; the same for the nested
\* containers below it
RootAsDeclared(resource, paths) ==
    /\ IF RootText \in DOMAIN paths
       THEN BuiltFromEntry(resource, paths[RootText])
       ELSE resource.kind = "404"
    /\ \A k \in DOMAIN paths \ {RootText, RootBytes} :
           paths[k].type = "path"
           => RootAsDeclared(resource.children[WebPath(k)], NestedPaths(paths[k]))

\* the paths a web transport configuration declares, none when it has no
\* 'paths'
DeclaredPaths(config) == IF "paths" \in DOMAIN config THEN config.paths ELSE EmptyMap

\* C28: the root of the resource tree of a web transport, and of a nested
\* 'path' container, is the resource built from the '/' entry of its paths
\* when there is one (a json entry of value v gives a root serving v) and a 404
\* resource otherwise, also for a web transport that declares no paths at all.
C28_RootFromRootEntry ==
    [][Ran("start_router_transport") /\ last'.config.type = "web"
          /\ ~TransportIsRunning(last'.id) /\ last'.config.check
          /\ ~HasUnknownPathType(PathOf(DeclaredPaths(last'.config)))
          /\ ~HasPathType(PathOf(DeclaredPaths(last'.config)), {"schemadoc"})
          => /\ last'.res = Pending
             /\ \A p \in pending' \ pending :
                    RootAsDeclared(p.factory.root, DeclaredPaths(p.config))]_vars

\* C29: a fault raised inside a component's own event handling disconnects
\* that component's session and nothing else: the sessions of the other
\* components stay connected, the registries and everything they refer to
\* stay as they are, and the worker goes on serving calls.
C29_PanicIsolated ==
    [][Ran("panic")
          => /\ components[last'.id].session \in connected
             /\ connected' = connected \ {components[last'.id].session}
             /\ UNCHANGED <<realms, realm_to_id, components, transports, transport_order,
                            routers, core_roles, app_sessions, bound, pools, pending>>
             /\ UNCHANGED shutdown]_vars

\* C29 witness: a component has been disconnected by a fault of its own while
\* another component is connected and the worker is running
C29_Witness ==
    /\ last.op = "panic"
    /\ components[last.id].session \notin connected
    /\ \E c \in DOMAIN components : c # last.id /\ components[c].session \in connected
    /\ phase = "running"

\* C30: a successful completion of stop_router_transport removes only the
\* transport whose listener that call has stopped: under every interleaving
\* of starts and stops of one ID, no transport whose listener is still bound
\* is removed from the registry.
C30_StopRemovesOnlyStopped ==
    [][\A id \in DOMAIN transports :
           id \notin DOMAIN transports' => transports[id].port \notin bound']_vars

\* C31: a stop_router_transport call issued while a start of the same ID
\* waits for its bind fails with not_running and changes nothing, the pending
\* start included; when the bind then succeeds the transport is registered and
\* its listener is bound.
C31_StopDuringPendingStart ==
    [][/\ Ran("stop_router_transport") /\ BindPending(last'.id)
             => last'.res = NotRunning /\ NothingChanges
       /\ Ran("start_router_transport.ok")
             => /\ last'.id \in DOMAIN transports'
                /\ transports'[last'.id].port \in bound']_vars

\* C32: whenever the event loop is between two turns, so that another
\* call can observe the registries, every realm in the realm registry has a
\* router in the routing core and a service session that is not null, also
\* after a start_router_realm call whose router creation or session
\* construction failed.
C32_RegisteredRealmHasRouterAndSession ==
    last = Idle
    => \A id \in DOMAIN realms :
           /\ realms[id].config.name \in routers
           /\ realms[id].session # NoSession

\* C33: on shutdown the parent's onLeave is invoked exactly once, and only
\* when every requested leave has resolved, by success or by failure: it has
\* run if and only if onLeave has run and no leave is open; a leave that fails
\* or raises does not hold it up, and with no connected component it runs in
\* onLeave itself.
C33_ParentOnLeaveOnce ==
    [][/\ parent_left' \in {0, 1}
       /\ parent_left' = 1 <=> (phase' # "running" /\ leave_pending' = {})
       /\ parent_left' # parent_left
             => Ran("onLeave") \/ Ran("onLeave.done") \/ Ran("onLeave.failed")
       /\ Ran("onLeave") /\ ConnectedComponents = {} => parent_left' = 1]_vars

\* C33 witness: two components were asked to leave, the leave that resolved
\* last has failed, and the parent's onLeave has run once
C33_Witness ==
    /\ last.op = "onLeave.failed"
    /\ Cardinality(leave_requested) = 2
    /\ leave_pending = {}
    /\ parent_left = 1
    /\ phase = "left"

\* the configuration fails the validation of its start procedure: the schema
\* check, for a component the loop over its references, for a transport the
\* making of its factory, where it ends in invalid_configuration
FailsValidation(op, config) ==
    \/ ~config.check
    \/ op = "start_router_component" /\ HasBadReference(config)
    \/ op = "start_router_transport" /\ TransportFactory(config).err = InvalidConfiguration

\* the registry a start procedure checks its ID against
RegistryOf(op) ==
    CASE op = "start_router_realm" -> DOMAIN realms
      [] op = "start_router_component" -> DOMAIN components
      [] op = "start_router_transport" -> DOMAIN transports

\* C34: in start_router_realm, start_router_component and
\* start_router_transport the duplicate check comes before the validation of
\* the configuration: a start of an ID that is in the registry, with a
\* configuration that is invalid, fails with already_running, not with
\* invalid_configuration, and changes nothing.
C34_DuplicateCheckFirst ==
    [][\A op \in {"start_router_realm", "start_router_component", "start_router_transport"} :
           Ran(op) /\ last'.id \in RegistryOf(op) /\ FailsValidation(op, last'.config)
           => last'.res = AlreadyRunning /\ NothingChanges /\ calls' = calls]_vars

\* C34 witness: realm, component and transport are registered, and a start of
\* the registered realm with an invalid configuration has been rejected as a
\* duplicate
C34_Witness ==
    /\ last.op = "start_router_realm"
    /\ last.id \in DOMAIN realms
    /\ ~last.config.check
    /\ last.res = AlreadyRunning
    /\ components # EmptyMap /\ transports # EmptyMap

====
